---- MODULE Spec2Model ----
(***************************************************************************)
(* A model of soprano/calculate/nmr/utils.py: the annotation force field   *)
(* (get_force_matrix, get_total_forces, get_energy), the label layout      *)
(* optimiser (optimise_annotations), Peak2D.equivalent_to and              *)
(* generate_contour_map.                                                   *)
(*                                                                         *)
(* Real numbers are exact rationals [n |-> numerator, d |-> denominator]   *)
(* in lowest terms with d > 0.  The IEEE value NaN, which numpy produces   *)
(* for 0/0, is the record with d = 0 and n = 0.                            *)
(***************************************************************************)
EXTENDS Integers, Sequences, FiniteSets, TLC

\* ------------------------------------------------------------------------
\* Bounds of the model
\* ------------------------------------------------------------------------
\* longest sequence of label positions passed to optimise_annotations
MaxLen == 3
\* label positions are the integers 0..MaxPos
MaxPos == 2
\* largest max_iters passed to optimise_annotations
MaxIters == 2

\* ------------------------------------------------------------------------
\* Rational arithmetic (numpy float arithmetic, taken exactly)
\* ------------------------------------------------------------------------
IAbs(i) == IF i < 0 THEN -i ELSE i

RECURSIVE GCD(_, _)
GCD(a, b) == IF b = 0 THEN a ELSE GCD(b, a % b)

NaN == [n |-> 0, d |-> 0]

IsFinite(a) == a.d > 0

\* n/d in lowest terms; 0/0 is NaN, x/0 is a signed infinity
Rat(n, d) ==
    IF d = 0 THEN [n |-> (IF n > 0 THEN 1 ELSE IF n < 0 THEN -1 ELSE 0), d |-> 0]
    ELSE LET g == GCD(IAbs(n), IAbs(d))
             s == IF d < 0 THEN -1 ELSE 1
         IN  [n |-> s * (n \div g), d |-> s * (d \div g)]

R(i) == Rat(i, 1)

\* Arithmetic on a non-finite operand gives NaN (the only non-finite value the
\* modelled code produces is the NaN of 0/0).
RAdd(a, b) ==
    IF IsFinite(a) /\ IsFinite(b)
    THEN LET g == GCD(a.d, b.d)
         IN  Rat(a.n * (b.d \div g) + b.n * (a.d \div g), (a.d \div g) * b.d)
    ELSE NaN
RNeg(a)    == IF IsFinite(a) THEN [n |-> -a.n, d |-> a.d] ELSE NaN
RSub(a, b) == RAdd(a, RNeg(b))
RMul(a, b) ==
    IF IsFinite(a) /\ IsFinite(b)
    THEN LET g1 == GCD(IAbs(a.n), b.d)
             g2 == GCD(IAbs(b.n), a.d)
         IN  Rat((a.n \div g1) * (b.n \div g2), (a.d \div g2) * (b.d \div g1))
    ELSE NaN
RDiv(a, b) ==
    IF IsFinite(a) /\ IsFinite(b)
    THEN IF b.n = 0 THEN Rat(a.n, 0)
         ELSE RMul(a, [n |-> (IF b.n < 0 THEN -b.d ELSE b.d), d |-> IAbs(b.n)])
    ELSE NaN

\* np.abs
RAbs(a) == IF IsFinite(a) THEN [n |-> IAbs(a.n), d |-> a.d] ELSE NaN

\* the sign of a - b, for finite a and b
RCmp(a, b) == LET g == GCD(a.d, b.d) IN a.n * (b.d \div g) - b.n * (a.d \div g)

\* Comparisons: every comparison with NaN is false
RLt(a, b) == IsFinite(a) /\ IsFinite(b) /\ RCmp(a, b) < 0
RLe(a, b) == IsFinite(a) /\ IsFinite(b) /\ RCmp(a, b) <= 0
REq(a, b) == IsFinite(a) /\ IsFinite(b) /\ RCmp(a, b) = 0

RECURSIVE RSumSeq(_)
RSumSeq(s) == IF s = <<>> THEN R(0) ELSE RAdd(Head(s), RSumSeq(Tail(s)))

\* np.min / np.max of a non-empty array: NaN when the array holds a NaN
NpMin(s) ==
    IF \E i \in 1..Len(s) : ~IsFinite(s[i]) THEN NaN
    ELSE LET i == CHOOSE i \in 1..Len(s) : \A j \in 1..Len(s) : RLe(s[i], s[j]) IN s[i]
NpMax(s) ==
    IF \E i \in 1..Len(s) : ~IsFinite(s[i]) THEN NaN
    ELSE LET i == CHOOSE i \in 1..Len(s) : \A j \in 1..Len(s) : RLe(s[j], s[i]) IN s[i]

\* ------------------------------------------------------------------------
\* optimise_annotations
\* ------------------------------------------------------------------------
Perms(n) == {p \in [1..n -> 1..n] : \A i, j \in 1..n : i # j => p[i] # p[j]}

\* np.argsort(a): the index arrays that sort a ascending.  numpy's default
\* sort kind is not stable, so equal elements may come in either order.
Argsort(a) == {p \in Perms(Len(a)) : \A i \in 1..(Len(a) - 1) : RLe(a[p[i]], a[p[i + 1]])}

\* a[idx]: numpy fancy indexing by an index array
Take(a, idx) == [i \in 1..Len(idx) |-> a[idx[i]]]

\* (positions - min_pos) / original_range, elementwise
Normalise(a, min_pos, original_range) ==
    [i \in 1..Len(a) |-> RDiv(RSub(a[i], min_pos), original_range)]

\* new_pos_frac * original_range + min_pos, elementwise
Rescale(x, min_pos, original_range) ==
    [i \in 1..Len(x) |-> RAdd(RMul(x[i], original_range), min_pos)]

\* The points the constrained minimiser may hold as its iterate, on a grid
\* that has the resolution of the input positions and reaches one step
\* outside [0, 1].  The constraints of the minimize call:
\*   eq:   x[0] - positions_original[0] = 0,  x[-1] - positions_original[-1] = 0
\*   ineq: x >= 0,  1 - x >= 0   (elementwise)
\* An iterate that holds NaN stays NaN.
FracGrid(original_range) ==
    {RDiv(R(j), original_range) : j \in (-1)..(original_range.n + 1)}

EqFirst(v, x_orig) == REq(RSub(v, x_orig[1]), R(0))
EqLast(v, x_orig)  == REq(RSub(v, x_orig[Len(x_orig)]), R(0))
IneqLower(v)       == RLe(R(0), v)
IneqUpper(v)       == RLe(R(0), RSub(R(1), v))

Iterates(x_orig, original_range) ==
    IF \E i \in 1..Len(x_orig) : ~IsFinite(x_orig[i])
    THEN {x_orig}
    ELSE LET n == Len(x_orig)
             Box == {v \in FracGrid(original_range) : IneqLower(v) /\ IneqUpper(v)}
             Allowed(i) == {v \in Box : (i = 1 => EqFirst(v, x_orig))
                                         /\ (i = n => EqLast(v, x_orig))}
             First == Allowed(1)
             Last == Allowed(n)
             Inner == Allowed(2)
         IN  {[i \in 1..n |-> IF i = 1 THEN f ELSE IF i = n THEN l ELSE m[i]] :
                 f \in First, l \in Last, m \in [2..(n - 1) -> Inner]}

\* len(positions) < 3: the early return
TooFew_lt2(positions) == Len(positions) < 2
TooFew(positions) == Len(positions) < 3

\* positions[inverted_order]: back to the order of the input
RestoreOrder_by_order(new_pos, ord, inv) == Take(new_pos, ord)
RestoreOrder(new_pos, ord, inv) == Take(new_pos, inv)

PosValues == {R(i) : i \in 0..MaxPos}

PositionInputs == UNION {[1..n -> PosValues] : n \in 0..MaxLen}

VARIABLES
    pc,        \* "idle", "minimizing" (inside scipy's minimize), "done"
    op,        \* the function that was called
    args,      \* its arguments
    order,     \* optimise_annotations: order
    inverted_order, \* optimise_annotations: inverted_order
    positions_original, \* optimise_annotations: normalised sorted originals
    scale,     \* optimise_annotations: [min_pos, original_range]
    x,         \* the minimiser's current iterate
    nit,       \* the minimiser's iteration count
    ret        \* the value returned (or the error raised)

vars == <<pc, op, args, order, inverted_order, positions_original, scale, x, nit, ret>>

None == [kind |-> "none"]
Value(v) == [kind |-> "value", value |-> v]
Raise(e, m) == [kind |-> "raise", error |-> e, msg |-> m]

NoOptimiser ==
    /\ order = <<>>
    /\ inverted_order = <<>>
    /\ positions_original = <<>>
    /\ scale = None
    /\ x = <<>>
    /\ nit = 0

Init ==
    /\ pc = "idle"
    /\ op = "none"
    /\ args = None
    /\ ret = None
    /\ NoOptimiser

\* optimise_annotations, up to the call of minimize (or to the early return)
optimise_annotations_call ==
    /\ pc = "idle"
    /\ \E positions \in PositionInputs, max_iters \in 1..MaxIters :
        /\ op' = "optimise_annotations"
        /\ args' = [positions |-> positions, max_iters |-> max_iters]
        /\ IF TooFew(positions)
           THEN /\ ret' = Value(positions)
                /\ pc' = "done"
                /\ UNCHANGED <<order, inverted_order, positions_original, scale, x, nit>>
           ELSE \E ord \in Argsort(positions) :
                  LET inv == CHOOSE p \in Argsort([i \in 1..Len(ord) |-> R(ord[i])]) : TRUE
                      sorted == Take(positions, ord)
                      original_range == RSub(NpMax(sorted), NpMin(sorted))
                      min_pos == NpMin(sorted)
                      normed == Normalise(sorted, min_pos, original_range)
                  IN  /\ order' = ord
                      /\ inverted_order' = inv
                      /\ positions_original' = normed
                      /\ scale' = [min_pos |-> min_pos, original_range |-> original_range]
                      /\ x' = normed
                      /\ nit' = 0
                      /\ ret' = None
                      /\ pc' = "minimizing"

\* options = {'maxiter': max_iters}: the minimiser starts another iteration
\* only while it has made fewer than max_iters
within_maxiter_inclusive(n, max_iters) == n <= max_iters
within_maxiter(n, max_iters) == n < max_iters

\* one iteration of the minimiser
minimize_iterate ==
    /\ pc = "minimizing"
    /\ within_maxiter(nit, args.max_iters)
    /\ \E xn \in Iterates(positions_original, scale.original_range) : x' = xn
    /\ nit' = nit + 1
    /\ UNCHANGED <<pc, op, args, order, inverted_order, positions_original, scale, ret>>

\* minimize returns res (converged, or the iteration limit was reached);
\* optimise_annotations rescales, restores the input order and returns
optimise_annotations_return ==
    /\ pc = "minimizing"
    /\ LET new_pos == Rescale(x, scale.min_pos, scale.original_range)
       IN  ret' = Value(RestoreOrder(new_pos, order, inverted_order))
    /\ pc' = "done"
    /\ UNCHANGED <<op, args, order, inverted_order, positions_original, scale, x, nit>>

NextOptimise ==
    \/ optimise_annotations_call
    \/ minimize_iterate
    \/ optimise_annotations_return

SpecOptimise == Init /\ [][NextOptimise]_vars

\* the same program under a scheduler that keeps running it: the call, the
\* minimiser's loop and the return are straight-line code of one thread, so a
\* step that can be taken is taken
SpecOptimiseFair == SpecOptimise /\ WF_vars(NextOptimise)

\* ------------------------------------------------------------------------
\* Properties of optimise_annotations (checked under SpecOptimise)
\* ------------------------------------------------------------------------
OptimiseDone == pc = "done" /\ op = "optimise_annotations"

\* C1: optimise_annotations called with fewer than 3 positions returns its
\* input unchanged: the same values in the same order.
C1_ShortInputUnchanged ==
    (OptimiseDone /\ Len(args.positions) < 3) => ret = Value(args.positions)

\* an unsorted two-position input has been returned
C1_Witness ==
    /\ OptimiseDone
    /\ args.positions = <<R(2), R(0)>>
    /\ ret = Value(<<R(2), R(0)>>)

\* C2: for n >= 3 positions the result has length n and is in the order of
\* the input: the label at input[i] has rank r in the ascending sort
\* (order[r] = i), the minimiser started slot r from the normalised input[i],
\* and output[i] is the rescaled value the minimiser left in slot r.
C2_OriginalOrderRestored ==
    (OptimiseDone /\ Len(args.positions) >= 3) =>
        /\ ret.kind = "value"
        /\ Len(ret.value) = Len(args.positions)
        /\ \A r \in 1..(Len(order) - 1) :
               RLe(args.positions[order[r]], args.positions[order[r + 1]])
        /\ \A i \in 1..Len(args.positions) :
               \E r \in 1..Len(order) :
                  /\ order[r] = i
                  /\ positions_original[r] =
                        RDiv(RSub(args.positions[i], scale.min_pos), scale.original_range)
                  /\ ret.value[i] =
                        RAdd(RMul(x[r], scale.original_range), scale.min_pos)

\* the input [2, 0, 1] (the shape of [5, 1, 3]) has been optimised, its
\* middle label moved, and output[1] is still the label that was at 2
C2_Witness ==
    /\ OptimiseDone
    /\ args.positions = <<R(2), R(0), R(1)>>
    /\ nit > 0
    /\ ret = Value(<<R(2), R(0), R(2)>>)

\* C3: for every input of n >= 3 positions the smallest and the largest
\* position of the result equal the smallest and the largest of the input,
\* within the tolerance ftol.
ftol == Rat(1, 1000)

C3_EndpointsFixed ==
    (OptimiseDone /\ Len(args.positions) >= 3) =>
        /\ RLe(RAbs(RSub(NpMin(ret.value), NpMin(args.positions))), ftol)
        /\ RLe(RAbs(RSub(NpMax(ret.value), NpMax(args.positions))), ftol)

\* C4: every returned position lies within [min(input), max(input)].
C4_WithinInputRange ==
    (OptimiseDone /\ Len(args.positions) >= 3) =>
        \A i \in 1..Len(ret.value) :
            /\ RLe(NpMin(args.positions), ret.value[i])
            /\ RLe(ret.value[i], NpMax(args.positions))

\* C3 and C4 hold of every input whose positions are not all equal
\* (original_range > 0)
EndpointsFixedWhenRangePositive ==
    (OptimiseDone /\ Len(args.positions) >= 3
        /\ RLt(NpMin(args.positions), NpMax(args.positions))) =>
        /\ REq(NpMin(ret.value), NpMin(args.positions))
        /\ REq(NpMax(ret.value), NpMax(args.positions))
        /\ \A i \in 1..Len(ret.value) :
            /\ RLe(NpMin(args.positions), ret.value[i])
            /\ RLe(ret.value[i], NpMax(args.positions))

\* ------------------------------------------------------------------------
\* Peak2D.equivalent_to
\* ------------------------------------------------------------------------
Peak2D(px, py, strength) == [x |-> px, y |-> py, correlation_strength |-> strength]

\* the default tolerances of equivalent_to
xtol_default == Rat(5, 1000)
ytol_default == Rat(5, 1000)
corr_tol_default == Rat(1, 10)

Tolerances(xtol, ytol, corr_tol, ignore) ==
    [xtol |-> xtol, ytol |-> ytol, corr_tol |-> corr_tol, ignore_correlation_strength |-> ignore]

\* np.abs(a - b) < tol
Within_le(a, b, tol) == RLe(RAbs(RSub(a, b)), tol)
Within_signed(a, b, tol) == RLt(RSub(a, b), tol)
Within(a, b, tol) == RLt(RAbs(RSub(a, b)), tol)

equivalent_to(self, other, t) ==
    LET x_match == Within(self.x, other.x, t.xtol)
        y_match == Within(self.y, other.y, t.ytol)
        corr_match == IF t.ignore_correlation_strength THEN TRUE
                      ELSE Within(self.correlation_strength, other.correlation_strength, t.corr_tol)
    IN  x_match /\ y_match /\ corr_match

PeakInputs ==
    {Peak2D(px, py, s) :
        px \in {Rat(1000, 1000), Rat(1003, 1000), Rat(1006, 1000)},
        py \in {Rat(2000, 1000), Rat(2002, 1000), Rat(2200, 1000)},
        s  \in {Rat(100, 100), Rat(105, 100), Rat(110, 100)}}

ToleranceInputs ==
    {Tolerances(xtol_default, ytol_default, corr_tol_default, ig) : ig \in BOOLEAN}
    \cup {Tolerances(Rat(3, 1000), Rat(2, 1000), Rat(1, 20), FALSE)}

\* equivalent_to is called on the pairs (a, b), (b, a), (b, c) and (a, c) of
\* three peaks, with the same tolerance arguments
equivalent_to_call ==
    /\ pc = "idle"
    /\ \E a \in PeakInputs, b \in PeakInputs, c \in PeakInputs, t \in ToleranceInputs :
        /\ op' = "equivalent_to"
        /\ args' = [a |-> a, b |-> b, c |-> c, tol |-> t]
        /\ ret' = Value([ab |-> equivalent_to(a, b, t),
                         ba |-> equivalent_to(b, a, t),
                         bc |-> equivalent_to(b, c, t),
                         ac |-> equivalent_to(a, c, t)])
    /\ pc' = "done"
    /\ UNCHANGED <<order, inverted_order, positions_original, scale, x, nit>>

NextPeak == equivalent_to_call

SpecPeak == Init /\ [][NextPeak]_vars

EquivalentDone == pc = "done" /\ op = "equivalent_to"

\* differences in thousandths (coordinates) and hundredths (strength)
MilliDiff(a, b) == IAbs((a.n * 1000) \div a.d - (b.n * 1000) \div b.d)

\* C7: a.equivalent_to(b) is true iff |x1 - x2| < xtol and |y1 - y2| < ytol
\* and (ignore_correlation_strength or |s1 - s2| < corr_tol), the inequalities
\* strict and the defaults 0.005, 0.005 and 0.1; (1.000, 2.000, 1.0) and
\* (1.003, 2.002, 1.05) are equivalent under the defaults and
\* (1.000, 2.000, 1.0) and (1.000, 2.200, 1.0) are not.
C7_EquivalentIff ==
    EquivalentDone =>
        LET a == args.a
            b == args.b
            t == args.tol
        IN  /\ ret.value.ab <=>
                 /\ MilliDiff(a.x, b.x) * t.xtol.d < t.xtol.n * 1000
                 /\ MilliDiff(a.y, b.y) * t.ytol.d < t.ytol.n * 1000
                 /\ \/ t.ignore_correlation_strength
                    \/ MilliDiff(a.correlation_strength, b.correlation_strength) * t.corr_tol.d
                          < t.corr_tol.n * 1000
            /\ (/\ t = Tolerances(Rat(5, 1000), Rat(5, 1000), Rat(1, 10), FALSE)
                /\ a = Peak2D(Rat(1000, 1000), Rat(2000, 1000), Rat(100, 100))
                /\ b = Peak2D(Rat(1003, 1000), Rat(2002, 1000), Rat(105, 100)))
               => ret.value.ab
            /\ (/\ t = Tolerances(Rat(5, 1000), Rat(5, 1000), Rat(1, 10), FALSE)
                /\ a = Peak2D(Rat(1000, 1000), Rat(2000, 1000), Rat(100, 100))
                /\ b = Peak2D(Rat(1000, 1000), Rat(2200, 1000), Rat(100, 100)))
               => ~ret.value.ab

\* the two peaks of the example have been compared under the defaults, and
\* were found equivalent
C7_Witness ==
    /\ EquivalentDone
    /\ args.tol = Tolerances(xtol_default, ytol_default, corr_tol_default, FALSE)
    /\ args.a = Peak2D(Rat(1000, 1000), Rat(2000, 1000), Rat(100, 100))
    /\ args.b = Peak2D(Rat(1003, 1000), Rat(2002, 1000), Rat(105, 100))
    /\ ret.value.ab

\* C8: equivalent_to is symmetric, a.equivalent_to(b) = b.equivalent_to(a)
\* for all peaks and tolerance arguments; it is not transitive (C8_Witness is
\* a reachable state with a ~ b, b ~ c and not a ~ c).
C8_Symmetric ==
    EquivalentDone => (ret.value.ab <=> ret.value.ba)

\* three peaks, compared under the same tolerances, on which the relation is
\* symmetric and not transitive
C8_Witness ==
    /\ EquivalentDone
    /\ ret.value.ab /\ ret.value.ba
    /\ ret.value.bc
    /\ ~ret.value.ac

\* the statement that equivalent_to is transitive
C8_Transitive ==
    EquivalentDone => ((ret.value.ab /\ ret.value.bc) => ret.value.ac)

\* ------------------------------------------------------------------------
\* get_force_matrix, get_total_forces, get_energy
\* ------------------------------------------------------------------------
\* longest array of positions passed to the force field directly
MaxForceLen == 2
\* original positions passed to the force field directly are 0..MaxOrig
MaxOrig == 1

\* the guard np.abs(displacement) > 1e-8, for a displacement a >= 0
EpsInverse == 100000000
GtEps(a) == IsFinite(a) /\ a.n > 0 /\ EpsInverse > (a.d \div a.n)

RPow(a, e) == IF e = 0 THEN R(1) ELSE IF e = 1 THEN a
              ELSE IF e = 2 THEN RMul(a, a) ELSE RMul(RMul(a, a), RMul(a, a))

\* the number of True entries of a boolean matrix (np.sum of a mask)
MaskCount(mask, n) == Cardinality({ij \in (1..n) \X (1..n) : mask[ij[1]][ij[2]]})

\* the place of entry (i, j) among the True entries of mask, in row-major
\* order (the order in which Fmat[mask] = values assigns)
MaskRank(mask, n, i, j) ==
    Cardinality({ij \in (1..n) \X (1..n) :
        mask[ij[1]][ij[2]] /\ (ij[1] < i \/ (ij[1] = i /\ ij[2] <= j))})

\* randn: the values one draw of np.random.randn may take
RandnValues == {R(-1), R(0), R(1)}

\* np.random.randn(m): the arrays of m draws
RandnDraws(m) == [1..m -> RandnValues]

\* the mask of the entries that get the random force, as the code computes
\* it: off_diag_mask has already been and-ed with non_zero_displacements
zero_off_diag_mask(positions) ==
    LET n == Len(positions)
        displacement_matrix == [i \in 1..n |-> [j \in 1..n |-> RSub(positions[i], positions[j])]]
        diag_mask == [i \in 1..n |-> [j \in 1..n |-> i = j]]
        non_zero_displacements ==
            [i \in 1..n |-> [j \in 1..n |-> GtEps(RAbs(displacement_matrix[i][j]))]]
        off_diag_mask ==
            [i \in 1..n |-> [j \in 1..n |-> ~diag_mask[i][j] /\ non_zero_displacements[i][j]]]
    IN  [i \in 1..n |-> [j \in 1..n |-> off_diag_mask[i][j] /\ ~non_zero_displacements[i][j]]]

\* get_force_matrix; draws are the values np.random.randn returns when the
\* random force is applied
get_force_matrix(positions, pos_original, C, k, draws) ==
    LET n == Len(positions)
        displacement_matrix == [i \in 1..n |-> [j \in 1..n |-> RSub(positions[i], positions[j])]]
        diag_mask == [i \in 1..n |-> [j \in 1..n |-> i = j]]
        non_zero_displacements ==
            [i \in 1..n |-> [j \in 1..n |-> GtEps(RAbs(displacement_matrix[i][j]))]]
        off_diag_mask ==
            [i \in 1..n |-> [j \in 1..n |-> ~diag_mask[i][j] /\ non_zero_displacements[i][j]]]
        zero_mask == zero_off_diag_mask(positions)
        any_zero == MaskCount(zero_mask, n) > 0
        Repulsion(i, j) ==
            RDiv(RMul(C, displacement_matrix[i][j]), RPow(RAbs(displacement_matrix[i][j]), 4))
        Random(i, j) ==
            RMul(RMul(draws[MaskRank(zero_mask, n, i, j)], C), RDiv(R(1), RPow(Rat(5, 100), 2)))
        Spring(i) == RMul(RMul(R(-2), k), RSub(positions[i], pos_original[i]))
    IN  [i \in 1..n |-> [j \in 1..n |->
            IF diag_mask[i][j] THEN Spring(i)
            ELSE IF any_zero /\ zero_mask[i][j] THEN Random(i, j)
            ELSE IF off_diag_mask[i][j] THEN Repulsion(i, j)
            ELSE R(0)]]

\* get_total_forces: the second definition of that name (lines 97-117), which
\* replaces the first (lines 76-95)
get_total_forces(positions, pos_original, C, k, draws) ==
    LET n == Len(positions)
        sign == R(-1)
        Fm == get_force_matrix(positions, pos_original, C, k, draws)
        Fmat == [i \in 1..n |-> [j \in 1..n |-> RMul(sign, Fm[i][j])]]
    IN  [i \in 1..n |-> RSumSeq(Fmat[i])]

\* 0.5 * k * np.sum((positions - positions_original)**2)
spring_energy_unsquared(positions, pos_original, k) ==
    RMul(RMul(Rat(1, 2), k),
         RSumSeq([i \in 1..Len(positions) |-> RSub(positions[i], pos_original[i])]))
spring_energy(positions, pos_original, k) ==
    RMul(RMul(Rat(1, 2), k),
         RSumSeq([i \in 1..Len(positions) |-> RPow(RSub(positions[i], pos_original[i]), 2)]))

\* get_energy
get_energy(positions, pos_original, C, k) ==
    LET n == Len(positions)
        Pairs == {ij \in (1..n) \X (1..n) : ij[1] < ij[2]}
        Term(ij) ==
            IF GtEps(RAbs(RSub(positions[ij[1]], positions[ij[2]])))
            THEN RDiv(C, RPow(RAbs(RSub(positions[ij[1]], positions[ij[2]])), 2))
            ELSE R(0)
        RECURSIVE SumPairs(_)
        SumPairs(S) ==
            IF S = {} THEN R(0)
            ELSE LET ij == CHOOSE ij \in S : \A o \in S :
                               ij[1] < o[1] \/ (ij[1] = o[1] /\ ij[2] <= o[2])
                 IN  RAdd(Term(ij), SumPairs(S \ {ij}))
        coulomb_energy == SumPairs(Pairs)
    IN  RAdd(spring_energy(positions, pos_original, k), coulomb_energy)

\* the force constants passed: the defaults C = 0.01, k = 0.00001 and a
\* negative value of each (not rejected by the code)
CValues == {Rat(1, 100), R(-1)}
KValues == {Rat(1, 100000), R(-1)}

ForceInputs ==
    UNION {[positions : [1..n -> PosValues],
            positions_original : [1..n -> {R(i) : i \in 0..MaxOrig}],
            C : CValues, k : KValues] : n \in 1..MaxForceLen}

get_force_matrix_call ==
    /\ pc = "idle"
    /\ \E a \in ForceInputs :
        /\ \E draws \in RandnDraws(MaskCount(zero_off_diag_mask(a.positions), Len(a.positions))) :
            ret' = Value(get_force_matrix(a.positions, a.positions_original, a.C, a.k, draws))
        /\ args' = a
    /\ op' = "get_force_matrix"
    /\ pc' = "done"
    /\ UNCHANGED <<order, inverted_order, positions_original, scale, x, nit>>

get_total_forces_call ==
    /\ pc = "idle"
    /\ \E a \in ForceInputs :
        /\ \E draws \in RandnDraws(MaskCount(zero_off_diag_mask(a.positions), Len(a.positions))) :
            ret' = Value(get_total_forces(a.positions, a.positions_original, a.C, a.k, draws))
        /\ args' = a
    /\ op' = "get_total_forces"
    /\ pc' = "done"
    /\ UNCHANGED <<order, inverted_order, positions_original, scale, x, nit>>

get_energy_call ==
    /\ pc = "idle"
    /\ \E a \in ForceInputs :
        /\ ret' = Value(get_energy(a.positions, a.positions_original, a.C, a.k))
        /\ args' = a
    /\ op' = "get_energy"
    /\ pc' = "done"
    /\ UNCHANGED <<order, inverted_order, positions_original, scale, x, nit>>

NextForce ==
    \/ get_force_matrix_call
    \/ get_total_forces_call
    \/ get_energy_call

SpecForce == Init /\ [][NextForce]_vars

\* ------------------------------------------------------------------------
\* Properties of the force field (checked under SpecForce)
\* ------------------------------------------------------------------------
\* no two positions within 1e-8 of each other
NoCoincident(positions) ==
    \A i, j \in 1..Len(positions) :
        i # j => GtEps(RAbs(RSub(positions[i], positions[j])))

\* The gradient of get_energy with respect to positions, term by term:
\* d/dp_i of C/|p_i - p_j|^2 is -2C(p_i - p_j)/|p_i - p_j|^4 and d/dp_i of
\* 0.5k(p_i - p0_i)^2 is k(p_i - p0_i).
GradEnergy(positions, pos_original, C, k) ==
    LET n == Len(positions)
        Pair(i, j) ==
            IF i # j /\ GtEps(RAbs(RSub(positions[i], positions[j])))
            THEN RDiv(RMul(RMul(R(-2), C), RSub(positions[i], positions[j])),
                      RPow(RAbs(RSub(positions[i], positions[j])), 4))
            ELSE R(0)
    IN  [i \in 1..n |->
            RAdd(RSumSeq([j \in 1..n |-> Pair(i, j)]),
                 RMul(k, RSub(positions[i], pos_original[i])))]

\* positions with entry i moved by h
Shifted(positions, i, h) == [positions EXCEPT ![i] = RAdd(positions[i], h)]

GradStep == Rat(1, 4)

\* GradEnergy is the gradient of the energy the code computes.  The energy
\* is linear in C and in k; its repulsive part (C = 1, k = 0) and its spring
\* part (C = 0, k = 1) are each convex in one position between its
\* neighbours, so the derivative of each lies between the backward and the
\* forward difference quotient of get_energy.
GradEnergyBracketed ==
    (pc = "done" /\ op = "get_total_forces" /\ NoCoincident(args.positions)) =>
        LET p == args.positions
            p0 == args.positions_original
        IN  \A i \in 1..Len(p), ck \in {<<R(1), R(0)>>, <<R(0), R(1)>>} :
              LET E(q) == get_energy(q, p0, ck[1], ck[2])
                  g == GradEnergy(p, p0, ck[1], ck[2])
              IN  /\ RLe(RDiv(RSub(E(p), E(Shifted(p, i, RNeg(GradStep)))), GradStep), g[i])
                  /\ RLe(g[i], RDiv(RSub(E(Shifted(p, i, GradStep)), E(p)), GradStep))

\* C6: get_total_forces returns for each label the negated row-sum of
\* get_force_matrix, and at every configuration with no two positions within
\* 1e-8 of each other this vector equals the gradient of get_energy, component
\* by component, up to one overall sign.
C6_ForcesAreGradient ==
    (pc = "done" /\ op = "get_total_forces" /\ NoCoincident(args.positions)) =>
        LET g == GradEnergy(args.positions, args.positions_original, args.C, args.k)
            Fmat == get_force_matrix(args.positions, args.positions_original, args.C, args.k, <<>>)
            n == Len(args.positions)
        IN  /\ \A i \in 1..n : ret.value[i] = RNeg(RSumSeq(Fmat[i]))
            /\ \/ \A i \in 1..n : ret.value[i] = g[i]
               \/ \A i \in 1..n : ret.value[i] = RNeg(g[i])

\* what the code does have: the negated row-sum is half the repulsive part of
\* the gradient plus twice its spring part
C6_ForcesHalfRepulsionTwiceSpring ==
    (pc = "done" /\ op = "get_total_forces" /\ NoCoincident(args.positions)) =>
        LET rep == GradEnergy(args.positions, args.positions_original, args.C, R(0))
            spr == GradEnergy(args.positions, args.positions_original, R(0), args.k)
        IN  \A i \in 1..Len(args.positions) :
                ret.value[i] = RAdd(RMul(Rat(1, 2), rep[i]), RMul(R(2), spr[i]))

\* C9: get_energy is non-negative for all inputs (positions, original
\* positions, C, k).
C9_EnergyNonNegative ==
    (pc = "done" /\ op = "get_energy") => RLe(R(0), ret.value)

\* C9 as amended: get_energy is non-negative whenever C >= 0 and k >= 0; a
\* pair closer than 1e-8 contributes nothing and every other pair C/gap^2.
C9_EnergyNonNegativeForNonNegativeConstants ==
    (pc = "done" /\ op = "get_energy" /\ RLe(R(0), args.C) /\ RLe(R(0), args.k)) =>
        /\ RLe(R(0), ret.value)
        /\ (Len(args.positions) = 2 /\ ~NoCoincident(args.positions)) =>
              ret.value = RMul(RMul(Rat(1, 2), args.k),
                    RAdd(RPow(RSub(args.positions[1], args.positions_original[1]), 2),
                         RPow(RSub(args.positions[2], args.positions_original[2]), 2)))

\* the energy of two distinct labels away from their originals, with the
\* default constants, has been computed and is positive
C9_Witness ==
    /\ pc = "done" /\ op = "get_energy"
    /\ args.C = Rat(1, 100) /\ args.k = Rat(1, 100000)
    /\ args.positions = <<R(0), R(2)>>
    /\ args.positions_original = <<R(1), R(1)>>
    /\ ret.value = RAdd(Rat(1, 400), Rat(1, 100000))

\* ------------------------------------------------------------------------
\* generate_contour_map
\* ------------------------------------------------------------------------
\* most peaks passed to generate_contour_map
MaxPeaks == 2
\* largest grid_size passed to generate_contour_map
MaxGrid == 2

\* Strings are sequences of characters, so that str.lower is computed.
UpperCase == <<"A", "B", "C", "D", "E", "F", "G", "H", "I", "J", "K", "L", "M",
               "N", "O", "P", "Q", "R", "S", "T", "U", "V", "W", "X", "Y", "Z">>
LowerCase == <<"a", "b", "c", "d", "e", "f", "g", "h", "i", "j", "k", "l", "m",
               "n", "o", "p", "q", "r", "s", "t", "u", "v", "w", "x", "y", "z">>

LowerChar(c) ==
    IF \E i \in 1..Len(UpperCase) : UpperCase[i] = c
    THEN LowerCase[CHOOSE i \in 1..Len(UpperCase) : UpperCase[i] = c]
    ELSE c

\* str.lower()
Lower(s) == [i \in 1..Len(s) |-> LowerChar(s[i])]

str_gaussian   == <<"g", "a", "u", "s", "s", "i", "a", "n">>
str_lorentzian == <<"l", "o", "r", "e", "n", "t", "z", "i", "a", "n">>
str_triangular == <<"t", "r", "i", "a", "n", "g", "u", "l", "a", "r">>

\* np.exp(t), kept as the term exp(t)
NpExp(t) == [fn |-> "exp", arg |-> t]

\* the Lorentzian of lorentzian's docstring, 1/(((x-x0)/wx)^2 + ((y-y0)/wy)^2 + 1)
lorentzian_of_docstring(X, x0, Y, y0, x_broadening, y_broadening) ==
    [fn |-> "reciprocal",
     arg |-> RAdd(RAdd(RPow(RDiv(RSub(X, x0), x_broadening), 2),
                       RPow(RDiv(RSub(Y, y0), y_broadening), 2)), R(1))]

\* lorentzian, at one grid point:
\* np.exp(-((X - x0)**2 / (2 * x_broadening**2) + (Y - y0)**2 / (2 * y_broadening**2)))
lorentzian(X, x0, Y, y0, x_broadening, y_broadening) ==
    NpExp(RNeg(RAdd(RDiv(RPow(RSub(X, x0), 2), RMul(R(2), RPow(x_broadening, 2))),
                    RDiv(RPow(RSub(Y, y0), 2), RMul(R(2), RPow(y_broadening, 2))))))

\* gaussian, at one grid point:
\* np.exp(-((X - x0)**2 / (2 * x_broadening**2) + (Y - y0)**2 / (2 * y_broadening**2)))
gaussian(X, x0, Y, y0, x_broadening, y_broadening) ==
    NpExp(RNeg(RAdd(RDiv(RPow(RSub(X, x0), 2), RMul(R(2), RPow(x_broadening, 2))),
                    RDiv(RPow(RSub(Y, y0), 2), RMul(R(2), RPow(y_broadening, 2))))))

\* np.linspace(start, stop, num): num samples, both ends included
Linspace_endpoint_excluded(start, stop, num) ==
    [i \in 1..num |-> RAdd(start, RMul(R(i - 1), RDiv(RSub(stop, start), R(num))))]
Linspace(start, stop, num) ==
    [i \in 1..num |->
        IF num = 1 THEN start
        ELSE RAdd(start, RMul(R(i - 1), RDiv(RSub(stop, start), R(num - 1))))]

NoLims == [kind |-> "none"]
Lims(lo, hi) == [kind |-> "lims", lo |-> lo, hi |-> hi]

\* min(...) / max(...) over a generator of the peaks' coordinates
PyMin(s) == NpMin(s)
PyMax(s) == NpMax(s)

\* the kernel check of the loop body: is the name one of the two known?
KnownKernel(broadening) == broadening = str_lorentzian \/ broadening = str_gaussian

\* Z after the loop over the peaks: at each grid point the sum, in the order
\* of the peaks, of strength * kernel
ContourZ(peaks, broadening, X, Y, x_broadening, y_broadening) ==
    [r \in 1..Len(X) |-> [c \in 1..Len(X[r]) |->
        [p \in 1..Len(peaks) |->
            [strength |-> peaks[p].correlation_strength,
             kernel |-> IF broadening = str_lorentzian
                        THEN lorentzian(X[r][c], peaks[p].x, Y[r][c], peaks[p].y,
                                        x_broadening, y_broadening)
                        ELSE gaussian(X[r][c], peaks[p].x, Y[r][c], peaks[p].y,
                                      x_broadening, y_broadening)]]]]

generate_contour_map(a) ==
    LET broadening == Lower(a.broadening)
        peaks == a.peaks
        xs == [p \in 1..Len(peaks) |-> peaks[p].x]
        ys == [p \in 1..Len(peaks) |-> peaks[p].y]
        x_min == IF a.xlims.kind = "none" THEN PyMin(xs) ELSE a.xlims.lo
        x_max == IF a.xlims.kind = "none" THEN PyMax(xs) ELSE a.xlims.hi
        y_min == IF a.ylims.kind = "none" THEN PyMin(ys) ELSE a.ylims.lo
        y_max == IF a.ylims.kind = "none" THEN PyMax(ys) ELSE a.ylims.hi
        gx == Linspace(RSub(x_min, RMul(R(5), a.x_broadening)),
                       RAdd(x_max, RMul(R(5), a.x_broadening)), a.grid_size)
        gy == Linspace(RSub(y_min, RMul(R(5), a.y_broadening)),
                       RAdd(y_max, RMul(R(5), a.y_broadening)), a.grid_size)
        X == [r \in 1..Len(gy) |-> [c \in 1..Len(gx) |-> gx[c]]]
        Y == [r \in 1..Len(gy) |-> [c \in 1..Len(gx) |-> gy[r]]]
    IN  IF (a.xlims.kind = "none" \/ a.ylims.kind = "none") /\ peaks = <<>>
        THEN Raise("ValueError", <<"min() arg is an empty sequence">>)
        ELSE IF peaks # <<>> /\ ~KnownKernel(broadening)
        THEN Raise("ValueError", <<"Unknown broadening function: ", broadening>>)
        ELSE Value([X |-> X, Y |-> Y,
                    Z |-> ContourZ(peaks, broadening, X, Y, a.x_broadening, a.y_broadening)])

ContourPeaks ==
    {Peak2D(R(0), R(0), R(1)), Peak2D(R(1), R(2), R(1)), Peak2D(R(1), R(0), R(2))}

KernelNames ==
    {str_gaussian, str_lorentzian, str_triangular,
     <<"G", "A", "U", "S", "S", "I", "A", "N">>,
     <<"L", "o", "r", "e", "n", "t", "z", "i", "a", "n">>}

ContourInputs ==
    [peaks : UNION {[1..n -> ContourPeaks] : n \in 0..MaxPeaks},
     grid_size : 1..MaxGrid,
     broadening : KernelNames,
     x_broadening : {R(1), R(2)},
     y_broadening : {R(1), R(2)},
     xlims : {NoLims, Lims(R(0), R(1))},
     ylims : {NoLims, Lims(R(0), R(2))}]

generate_contour_map_call ==
    /\ pc = "idle"
    /\ \E a \in ContourInputs :
        /\ args' = a
        /\ ret' = generate_contour_map(a)
    /\ op' = "generate_contour_map"
    /\ pc' = "done"
    /\ UNCHANGED <<order, inverted_order, positions_original, scale, x, nit>>

NextContour == generate_contour_map_call

SpecContour == Init /\ [][NextContour]_vars

\* ------------------------------------------------------------------------
\* Properties of generate_contour_map (checked under SpecContour)
\* ------------------------------------------------------------------------
ContourDone == pc = "done" /\ op = "generate_contour_map"

UnknownKernelGiven ==
    Lower(args.broadening) # str_gaussian /\ Lower(args.broadening) # str_lorentzian

RaisedUnknownKernel ==
    /\ ret.kind = "raise"
    /\ ret.error = "ValueError"
    /\ Len(ret.msg) = 2
    /\ ret.msg[2] = Lower(args.broadening)

\* C5: generate_contour_map called with a kernel name other than 'gaussian'
\* or 'lorentzian' (after lower-casing) raises the invalid-argument error
\* naming the kernel and returns no grid, for every peak list and every
\* choice of limits.
C5_UnknownKernelRaises ==
    (ContourDone /\ UnknownKernelGiven) => RaisedUnknownKernel

\* what the code does: the error is raised inside the loop over the peaks,
\* so it is raised exactly when there is a peak
UnknownKernelRaisesWhenPeaks ==
    (ContourDone /\ UnknownKernelGiven) => (RaisedUnknownKernel <=> args.peaks # <<>>)

ForceMatrixDone == pc = "done" /\ op = "get_force_matrix"

\* the pair (i, j) of positions is coincident: its gap is at or below 1e-8
Coincident(positions, i, j) == ~GtEps(RAbs(RSub(positions[i], positions[j])))

\* the entries of a returned force matrix away from coincident pairs: the
\* repulsion C*(p_i - p_j)/|p_i - p_j|^4 off the diagonal and the spring
\* -2k*(p_i - original_i) on it
RepulsionAndSpringEntries ==
    LET p == args.positions
        Fmat == ret.value
    IN  \A i, j \in 1..Len(p) :
          /\ (i # j /\ ~Coincident(p, i, j)) =>
                Fmat[i][j] = RDiv(RMul(args.C, RSub(p[i], p[j])),
                                  RPow(RAbs(RSub(p[i], p[j])), 4))
          /\ (i = j) =>
                Fmat[i][j] = RMul(RMul(R(-2), args.k),
                                  RSub(p[i], args.positions_original[i]))

\* C12: in get_force_matrix every pair i # j whose gap is at or below 1e-8 has
\* its entry (i, j) set by the randomised tie-break (a normal draw scaled by
\* C/0.05^2) rather than left at zero; every pair i # j whose gap exceeds 1e-8
\* has entry C*(p_i - p_j)/|p_i - p_j|^4; diagonal entry i is
\* -2k*(p_i - original_i).
C12_CoincidentEntriesRandomised ==
    ForceMatrixDone =>
        /\ RepulsionAndSpringEntries
        /\ \A i, j \in 1..Len(args.positions) :
              (i # j /\ Coincident(args.positions, i, j)) =>
                  /\ zero_off_diag_mask(args.positions)[i][j]
                  /\ \E draw \in RandnValues :
                        ret.value[i][j] =
                            RMul(RMul(draw, args.C), RDiv(R(1), RPow(Rat(5, 100), 2)))

\* what the code does: the tie-break mask is taken from off_diag_mask after
\* the coincident pairs were removed from it, so it is empty and the entry of
\* every coincident pair stays at the zero Fmat was created with
CoincidentEntriesLeftAtZero ==
    ForceMatrixDone =>
        /\ RepulsionAndSpringEntries
        /\ \A i, j \in 1..Len(args.positions) :
              (i # j /\ Coincident(args.positions, i, j)) =>
                  /\ ~zero_off_diag_mask(args.positions)[i][j]
                  /\ ret.value[i][j] = R(0)

\* a force matrix has been returned for two coincident labels
CoincidentForceMatrixReturned ==
    /\ ForceMatrixDone
    /\ args.positions = <<R(1), R(1)>>
    /\ args.positions_original = <<R(0), R(0)>>
    /\ args.C = Rat(1, 100) /\ args.k = Rat(1, 100000)

\* ------------------------------------------------------------------------
\* Division by zero (checked under SpecOptimise and SpecForce)
\* ------------------------------------------------------------------------
\* every number returned by operation o is finite: get_energy returns a
\* scalar, get_force_matrix a matrix, the others an array
AllFinite(o, v) ==
    IF o = "get_energy" THEN IsFinite(v)
    ELSE IF o = "get_force_matrix"
    THEN \A i \in 1..Len(v) : \A j \in 1..Len(v[i]) : IsFinite(v[i][j])
    ELSE \A i \in 1..Len(v) : IsFinite(v[i])

\* C13: no step of optimise_annotations, get_energy or get_force_matrix
\* divides by zero for a non-empty sequence of finite positions, so every
\* number returned is finite; in particular n >= 3 positions that are all
\* equal yield finite positions and not a 0/0 result.
C13_NoDivisionByZero ==
    (pc = "done" /\ op \in {"optimise_annotations", "get_energy", "get_force_matrix"}
        /\ Len(args.positions) >= 1) =>
        /\ ret.kind = "value"
        /\ AllFinite(op, ret.value)

\* what the code does have: the 1e-8 guard keeps get_energy,
\* get_force_matrix and get_total_forces finite, and optimise_annotations is
\* finite unless it divides by original_range = 0
FiniteUnlessRangeZero ==
    (pc = "done" /\ op # "equivalent_to" /\ op # "generate_contour_map") =>
        /\ ret.kind = "value"
        /\ (op = "optimise_annotations" /\ Len(args.positions) >= 3
                /\ REq(NpMin(args.positions), NpMax(args.positions)))
              => \A i \in 1..Len(ret.value) : ret.value[i] = NaN
        /\ ~(op = "optimise_annotations" /\ Len(args.positions) >= 3
                /\ REq(NpMin(args.positions), NpMax(args.positions)))
              => AllFinite(op, ret.value)

\* ------------------------------------------------------------------------
\* Termination of the minimisation (checked under SpecOptimise)
\* ------------------------------------------------------------------------
\* the minimiser never makes more than max_iters iterations
IterationsBounded ==
    (op = "optimise_annotations" /\ pc # "idle" /\ ~TooFew(args.positions)) =>
        nit <= args.max_iters

\* whatever the minimiser stopped on (converged or not), no error is raised
\* and the value returned is its last iterate, rescaled and put back in the
\* order of the input
LastIterateReturned ==
    (OptimiseDone /\ ~TooFew(args.positions)) =>
        /\ ret.kind = "value"
        /\ Len(ret.value) = Len(args.positions)
        /\ \A i \in 1..Len(ret.value) :
              ret.value[order[i]] = RAdd(RMul(x[i], scale.original_range), scale.min_pos)

\* once max_iters iterations are made the minimiser starts no other: all it
\* can do is return
StopsAtLimit ==
    (pc = "minimizing" /\ nit = args.max_iters) => ~ENABLED minimize_iterate

\* every step of the minimiser either returns or counts one more iteration,
\* so max_iters - nit decreases until it returns
CountsEveryIteration ==
    (pc = "minimizing") =>
        \/ pc' = "done" /\ ret'.kind = "value"
        \/ pc' = "minimizing" /\ nit' = nit + 1

\* C14: the minimisation inside optimise_annotations always terminates: it
\* stops on convergence or after at most max_iters iterations, whichever
\* comes first; on non-convergence no error is raised and optimise_annotations
\* still returns the last iterate, rescaled and reordered like a converged one.
C14_MinimisationTerminates ==
    /\ [](IterationsBounded /\ StopsAtLimit /\ LastIterateReturned)
    /\ [][CountsEveryIteration]_vars

\* under SpecOptimiseFair a minimisation that was started returns
MinimisationEventuallyReturns == (pc = "minimizing") ~> (pc = "done")

\* the iteration limit was reached with the labels moved, and a value was
\* returned all the same
C14_Witness ==
    /\ OptimiseDone
    /\ args.positions = <<R(2), R(0), R(1)>>
    /\ args.max_iters = 2
    /\ nit = args.max_iters
    /\ x = <<R(0), R(1), R(1)>>
    /\ ret = Value(<<R(2), R(0), R(2)>>)

\* ------------------------------------------------------------------------
\* The grid generate_contour_map returns (checked under SpecContour)
\* ------------------------------------------------------------------------
\* the smallest / the largest of a non-empty sequence of coordinates
LeastOf(s) == CHOOSE m \in {s[i] : i \in 1..Len(s)} : \A i \in 1..Len(s) : RLe(m, s[i])
GreatestOf(s) == CHOOSE m \in {s[i] : i \in 1..Len(s)} : \A i \in 1..Len(s) : RLe(s[i], m)

\* the two ends of an axis: the limits supplied, or else the least and the
\* greatest coordinate of the peaks, widened by 5 times the broadening
AxisEnds(lims, coords, broadening_width) ==
    LET lo == IF lims.kind = "none" THEN LeastOf(coords) ELSE lims.lo
        hi == IF lims.kind = "none" THEN GreatestOf(coords) ELSE lims.hi
    IN  [lo |-> RSub(lo, RMul(R(5), broadening_width)),
         hi |-> RAdd(hi, RMul(R(5), broadening_width))]

\* axis is evenly spaced from ends.lo to ends.hi (one sample is ends.lo)
EvenlySpaced(axis, ends) ==
    /\ axis[1] = ends.lo
    /\ Len(axis) >= 2 => axis[Len(axis)] = ends.hi
    /\ \A i \in 1..(Len(axis) - 1) :
          RSub(axis[i + 1], axis[i]) = RDiv(RSub(ends.hi, ends.lo), R(Len(axis) - 1))

\* C15: generate_contour_map returns X, Y, Z all of shape grid_size x
\* grid_size; the x axis is evenly spaced from x_min - 5*x_broadening to
\* x_max + 5*x_broadening and the y axis from y_min - 5*y_broadening to
\* y_max + 5*y_broadening, the limits being those supplied or else the
\* min/max of the peak coordinates; Z is the sum over the peaks of
\* correlation_strength times the kernel, hence zero for an empty peak list
\* with explicit limits.
C15_GridShapeAxesAndSum ==
    (ContourDone /\ ret.kind = "value") =>
        LET g == args.grid_size
            X == ret.value.X
            Y == ret.value.Y
            Z == ret.value.Z
            peaks == args.peaks
            xe == AxisEnds(args.xlims, [p \in 1..Len(peaks) |-> peaks[p].x], args.x_broadening)
            ye == AxisEnds(args.ylims, [p \in 1..Len(peaks) |-> peaks[p].y], args.y_broadening)
        IN  /\ Len(X) = g /\ Len(Y) = g /\ Len(Z) = g
            /\ \A r \in 1..g : Len(X[r]) = g /\ Len(Y[r]) = g /\ Len(Z[r]) = g
            /\ \A r \in 1..g : EvenlySpaced(X[r], xe)
            /\ \A c \in 1..g : EvenlySpaced([r \in 1..g |-> Y[r][c]], ye)
            /\ \A r, c \in 1..g :
                  /\ Len(Z[r][c]) = Len(peaks)
                  /\ \A p \in 1..Len(peaks) :
                        /\ Z[r][c][p].strength = peaks[p].correlation_strength
                        /\ Z[r][c][p].kernel =
                              IF Lower(args.broadening) = str_lorentzian
                              THEN lorentzian(X[r][c], peaks[p].x, Y[r][c], peaks[p].y,
                                              args.x_broadening, args.y_broadening)
                              ELSE gaussian(X[r][c], peaks[p].x, Y[r][c], peaks[p].y,
                                            args.x_broadening, args.y_broadening)
                  /\ (peaks = <<>>) => Z[r][c] = <<>>

\* an empty peak list with explicit limits has returned a 2 x 2 grid of zeros
\* over the padded limits
C15_Witness ==
    /\ ContourDone
    /\ args.peaks = <<>>
    /\ args.grid_size = 2
    /\ args.broadening = str_gaussian
    /\ args.xlims = Lims(R(0), R(1)) /\ args.x_broadening = R(1)
    /\ args.ylims = Lims(R(0), R(2)) /\ args.y_broadening = R(2)
    /\ ret = Value([X |-> << <<R(-5), R(6)>>, <<R(-5), R(6)>> >>,
                    Y |-> << <<R(-10), R(-10)>>, <<R(12), R(12)>> >>,
                    Z |-> << << <<>>, <<>> >>, << <<>>, <<>> >> >>])

====
